---- MODULE Spec2Model ----
(***************************************************************************)
(* OpenCode Qwen proxy plugin: credential store (src/plugin/auth.ts),      *)
(* credential reconciliation, token cache and resolution, request queue    *)
(* and the fetch interceptor with its 401/403 and 429 follow-ups           *)
(* (index.ts and request-queue.ts as carried by README.md).                *)
(*                                                                         *)
(* Times are epoch milliseconds.  A JavaScript string that is undefined or *)
(* null is the value NONE, the empty string is "", a number that is        *)
(* undefined is UndefNum.                                                  *)
(***************************************************************************)
EXTENDS Integers, Sequences, FiniteSets, TLC

VARIABLES
  now,               \* Date.now()
  auth,              \* what the host's getAuth() resolves to
  file,              \* content of ~/.qwen/oauth_creds.json
  cachedToken,       \* index.ts module state
  cachedTokenExpiry,
  lastRefreshTime,
  lastRequestTime,   \* RequestQueue.lastRequestTime
  pc,                \* per call: where the call is suspended
  gv,                \* per call: locals of its getValidAccessToken activation
  fc,                \* per call: locals of its fetch activation
  hist,              \* observation: dispatches, finished resolutions
  mRuntime,          \* inputs and result of a bare mergeCredentialSources call
  mFile,
  mResult,
  login,             \* locals of one authorize.callback activation
  store              \* observation: credentials saved, and what a load returned

cacheVars == <<cachedToken, cachedTokenExpiry, lastRefreshTime>>
envVars   == <<auth, file>>
callVars  == <<pc, gv, fc, hist>>
mergeVars == <<mRuntime, mFile, mResult>>
loginVars == <<login>>
storeVars == <<store>>
vars == <<now, auth, file, cachedToken, cachedTokenExpiry, lastRefreshTime,
          lastRequestTime, pc, gv, fc, hist, mRuntime, mFile, mResult, login,
          store>>

----------------------------------------------------------------------------
(* JavaScript values *)

NONE == "<none>"
UndefNum == 0 - 1

\* Boolean(s) of an optional string: undefined, null and "" are falsy
Truthy(s) == s \notin {NONE, ""}

\* Boolean(n) of an optional number: undefined and 0 are falsy
NumTruthy(n) == n \notin {UndefNum, 0}

\* a || b on optional strings
OrStr(a, b) == IF Truthy(a) THEN a ELSE b

\* a || b on optional numbers
OrNum(a, b) == IF NumTruthy(a) THEN a ELSE b

Max(a, b) == IF a >= b THEN a ELSE b

----------------------------------------------------------------------------
(* QwenCredentials | null *)

NullCred == [nil |-> TRUE]

Cred(at, tt, rt, ru, ed, sc) ==
  [nil |-> FALSE, accessToken |-> at, tokenType |-> tt, refreshToken |-> rt,
   resourceUrl |-> ru, expiryDate |-> ed, scope |-> sc]

\* c?.field on a possibly-null credential
OptAccess(c)  == IF c.nil THEN NONE ELSE c.accessToken
OptRefresh(c) == IF c.nil THEN NONE ELSE c.refreshToken
OptExpiry(c)  == IF c.nil THEN UndefNum ELSE c.expiryDate

----------------------------------------------------------------------------
(* src/plugin/auth.ts: the credential file *)

FileMissing == [kind |-> "missing"]
FileCorrupt == [kind |-> "corrupt"]

\* the object JSON.stringify wrote: undefined members are dropped (NONE here)
FileJson(at, tt, rt, ru, ed, sc) ==
  [kind |-> "json", access_token |-> at, token_type |-> tt, refresh_token |-> rt,
   resource_url |-> ru, expiry_date |-> ed, scope |-> sc]

saveCredentialsDropsZeroExpiry(credentials) ==
  FileJson(credentials.accessToken,
           OrStr(credentials.tokenType, "Bearer"),
           credentials.refreshToken,
           credentials.resourceUrl,
           OrNum(credentials.expiryDate, UndefNum),
           credentials.scope)

\* saveCredentials: the file after writeFileSync
saveCredentials(credentials) ==
  FileJson(credentials.accessToken,
           OrStr(credentials.tokenType, "Bearer"),
           credentials.refreshToken,
           credentials.resourceUrl,
           credentials.expiryDate,
           credentials.scope)

loadCredentialsUnguarded(f) ==
  IF f.kind \in {"missing", "corrupt"} THEN NullCred
  ELSE Cred(OrStr(f.access_token, ""), OrStr(f.token_type, "Bearer"),
            f.refresh_token, f.resource_url, f.expiry_date, f.scope)

\* loadCredentials: null for a missing or unparsable file and for a record with
\* neither token
loadCredentials(f) ==
  IF f.kind = "missing" THEN NullCred
  ELSE IF f.kind = "corrupt" THEN NullCred
  ELSE IF ~Truthy(f.access_token) /\ ~Truthy(f.refresh_token) THEN NullCred
  ELSE Cred(OrStr(f.access_token, ""),
            OrStr(f.token_type, "Bearer"),
            f.refresh_token,
            f.resource_url,
            f.expiry_date,
            f.scope)

----------------------------------------------------------------------------
(* index.ts: reconciliation *)

NullAuth == [type |-> "null", access |-> NONE, refresh |-> NONE, expires |-> UndefNum]

OAuth(a, r, e) == [type |-> "oauth", access |-> a, refresh |-> r, expires |-> e]

runtimeAuthToCredentials(a) ==
  IF a.type # "oauth" THEN NullCred
  ELSE IF ~Truthy(a.access) /\ ~Truthy(a.refresh) THEN NullCred
  ELSE Cred(OrStr(a.access, ""), "Bearer", a.refresh, NONE, a.expires, NONE)

\* credentials?.expiryDate ?? 0
getExpiryScore(credentials) ==
  IF credentials.nil \/ credentials.expiryDate = UndefNum THEN 0
  ELSE credentials.expiryDate

FreshnessCmpAscending(a, b) == getExpiryScore(a) - getExpiryScore(b)

\* the comparator given to sort: negative keeps a before b
FreshnessCmp(a, b) == getExpiryScore(b) - getExpiryScore(a)

\* Array.prototype.sort is stable: c goes behind every element it does not
\* strictly precede
RECURSIVE InsertSorted(_, _)
InsertSorted(c, sorted) ==
  IF sorted = <<>> THEN <<c>>
  ELSE IF FreshnessCmp(c, Head(sorted)) < 0 THEN <<c>> \o sorted
  ELSE <<Head(sorted)>> \o InsertSorted(c, Tail(sorted))

RECURSIVE SortByFreshness(_)
SortByFreshness(s) ==
  IF s = <<>> THEN <<>>
  ELSE InsertSorted(s[Len(s)], SortByFreshness(SubSeq(s, 1, Len(s) - 1)))

\* arr.indexOf(x), 1-based; 0 when absent
RECURSIVE IndexOfFrom(_, _, _)
IndexOfFrom(arr, x, i) ==
  IF i > Len(arr) THEN 0
  ELSE IF arr[i] = x THEN i
  ELSE IndexOfFrom(arr, x, i + 1)

IndexOf(arr, x) == IndexOfFrom(arr, x, 1)

KeepCandidateAnyTruthy(arr, index) == Truthy(arr[index])

\* the filter predicate of refreshCandidates
KeepCandidate(arr, index) ==
  Truthy(arr[index]) /\ IndexOf(arr, arr[index]) = index

RECURSIVE FilterCandidates(_, _)
FilterCandidates(arr, i) ==
  IF i > Len(arr) THEN <<>>
  ELSE (IF KeepCandidate(arr, i) THEN <<arr[i]>> ELSE <<>>)
       \o FilterCandidates(arr, i + 1)

mergeCredentialSources(runtimeCredentials, fileCredentials) ==
  LET credentialsByFreshness ==
        SortByFreshness(SelectSeq(<<runtimeCredentials, fileCredentials>>,
                                  LAMBDA item : ~item.nil))
      freshest == IF credentialsByFreshness = <<>> THEN NullCred
                  ELSE credentialsByFreshness[1]
      at == OrStr(OptAccess(freshest),
                  OrStr(OptAccess(runtimeCredentials), OptAccess(fileCredentials)))
  IN [accessToken |-> IF Truthy(at) THEN at ELSE NONE,
      expiryDate |-> OrNum(OptExpiry(freshest),
                           OrNum(OptExpiry(runtimeCredentials),
                                 OptExpiry(fileCredentials))),
      refreshCandidates |->
        FilterCandidates(<<OptRefresh(freshest), OptRefresh(fileCredentials),
                           OptRefresh(runtimeCredentials)>>, 1)]

----------------------------------------------------------------------------
(* index.ts: token cache and getValidAccessToken *)

TOKEN_CACHE_DURATION == 5 * 60 * 1000

REFRESH_BEFORE_EXPIRY_MS == 5 * 60 * 1000

\* the lifetime assumed for a token without expiry: Date.now() + 3600000
DEFAULT_LIFETIME_MS == 3600000

Cache == [token |-> cachedToken, expiry |-> cachedTokenExpiry,
          lastRefresh |-> lastRefreshTime]

\* resetTokenCache()
ResetCache == [token |-> NONE, expiry |-> 0, lastRefresh |-> 0]

\* locals of one getValidAccessToken activation, with what an observer of the
\* activation records: whether it followed a resetTokenCache (afterReset), the
\* exchanges it issued (exch) and whether one returned a credential (exchOk),
\* the reconciled view (mAccess, mExpiry), whether loadCredentials was called
\* (loaded), the candidate whose refreshed credential was written and returned
\* (refreshedAt, 0 for none), and how it ended (done, fast, ret)
IdleFrame ==
  [nowL |-> 0, accessToken |-> NONE, tokenExpiry |-> UndefNum, cands |-> <<>>,
   idx |-> 0, afterReset |-> FALSE, exch |-> 0, exchOk |-> FALSE,
   mAccess |-> NONE, mExpiry |-> UndefNum, loaded |-> FALSE, refreshedAt |-> 0,
   done |-> FALSE, fast |-> FALSE, ret |-> NONE]

FastPathInverted(c, t) ==
  Truthy(c.token) /\ t < c.expiry /\ t - c.lastRefresh > TOKEN_CACHE_DURATION

\* line 855: the cache fast path
FastPath(c, t) ==
  Truthy(c.token) /\ t < c.expiry /\ t - c.lastRefresh < TOKEN_CACHE_DURATION

ShouldRefreshWhenExpired(accessToken, tokenExpiry, cands, t) ==
  /\ Len(cands) > 0
  /\ \/ ~Truthy(accessToken)
     \/ ~NumTruthy(tokenExpiry)
     \/ t > tokenExpiry

\* lines 862-864
ShouldRefresh(accessToken, tokenExpiry, cands, t) ==
  /\ Len(cands) > 0
  /\ \/ ~Truthy(accessToken)
     \/ ~NumTruthy(tokenExpiry)
     \/ t > tokenExpiry - REFRESH_BEFORE_EXPIRY_MS

HardExpiredNever(accessToken, tokenExpiry, nowL) == FALSE

\* line 885
HardExpired(accessToken, tokenExpiry, nowL) ==
  Truthy(accessToken) /\ NumTruthy(tokenExpiry) /\ nowL > tokenExpiry

\* lines 885-896, run with locals fr at clock t: the outcome of the activation
GvatTail(fr, c, f, t) ==
  IF HardExpired(fr.accessToken, fr.tokenExpiry, fr.nowL)
  THEN [st |-> "ret", ret |-> NONE, fast |-> FALSE, cache |-> ResetCache,
        file |-> f, frame |-> fr]
  ELSE IF Truthy(fr.accessToken)
  THEN [st |-> "ret", ret |-> fr.accessToken, fast |-> FALSE,
        cache |-> [token |-> fr.accessToken,
                   expiry |-> OrNum(fr.tokenExpiry, t + DEFAULT_LIFETIME_MS),
                   lastRefresh |-> fr.nowL],
        file |-> f, frame |-> fr]
  ELSE [st |-> "ret", ret |-> NONE, fast |-> FALSE, cache |-> c,
        file |-> f, frame |-> fr]

\* lines 848-866: getAuth() has resolved to a at clock t
GvatFromGetAuth(fr0, a, f, c, t) ==
  LET merged == mergeCredentialSources(runtimeAuthToCredentials(a),
                                       loadCredentials(f))
      fr == [fr0 EXCEPT !.nowL = t,
                        !.accessToken = merged.accessToken,
                        !.tokenExpiry = merged.expiryDate,
                        !.cands = merged.refreshCandidates,
                        !.mAccess = merged.accessToken,
                        !.mExpiry = merged.expiryDate,
                        !.loaded = TRUE]
  IN IF FastPath(c, t)
     THEN [st |-> "ret", ret |-> c.token, fast |-> TRUE, cache |-> c,
           file |-> f, frame |-> fr]
     ELSE IF ShouldRefresh(fr.accessToken, fr.tokenExpiry, fr.cands, t)
     THEN [st |-> "refresh", ret |-> NONE, fast |-> FALSE, cache |-> c,
           file |-> f, frame |-> [fr EXCEPT !.idx = 1, !.exch = 1]]
     ELSE GvatTail(fr, c, f, t)

\* the catch of lines 878-881 and the loop header: the next candidate, or the
\* code after the loop
NextCandidate(fr, c, f, t) ==
  IF fr.idx < Len(fr.cands)
  THEN [st |-> "refresh", ret |-> NONE, fast |-> FALSE, cache |-> c, file |-> f,
        frame |-> [fr EXCEPT !.idx = fr.idx + 1, !.exch = fr.exch + 1]]
  ELSE GvatTail(fr, c, f, t)

GvatFromRefreshStaleStamp(fr, o, f, c, t) ==
  IF o.kind = "rejected" THEN NextCandidate(fr, c, f, t)
  ELSE LET fr2 == [fr EXCEPT !.accessToken = o.cred.accessToken,
                             !.tokenExpiry = OrNum(o.cred.expiryDate,
                                                   t + DEFAULT_LIFETIME_MS),
                             !.exchOk = TRUE]
       IN IF o.kind = "saveThrows" THEN NextCandidate(fr2, c, f, t)
          ELSE [st |-> "ret", ret |-> fr2.accessToken, fast |-> FALSE,
                cache |-> [token |-> fr2.accessToken, expiry |-> fr2.tokenExpiry,
                           lastRefresh |-> fr.nowL],
                file |-> saveCredentials(o.cred),
                frame |-> [fr2 EXCEPT !.refreshedAt = fr.idx]]

\* lines 869-882: refreshAccessToken(cands[idx]) has settled at clock t.
\* o.kind: "rejected" (the exchange threw), "ok" (it returned o.cred and the
\* record was written), "saveThrows" (it returned o.cred and saveCredentials
\* threw)
GvatFromRefresh(fr, o, f, c, t) ==
  IF o.kind = "rejected" THEN NextCandidate(fr, c, f, t)
  ELSE LET fr2 == [fr EXCEPT !.accessToken = o.cred.accessToken,
                             !.tokenExpiry = OrNum(o.cred.expiryDate,
                                                   t + DEFAULT_LIFETIME_MS),
                             !.exchOk = TRUE]
       IN IF o.kind = "saveThrows" THEN NextCandidate(fr2, c, f, t)
          ELSE [st |-> "ret", ret |-> fr2.accessToken, fast |-> FALSE,
                cache |-> [token |-> fr2.accessToken, expiry |-> fr2.tokenExpiry,
                           lastRefresh |-> t],
                file |-> saveCredentials(o.cred),
                frame |-> [fr2 EXCEPT !.refreshedAt = fr.idx]]

\* the activation as it stands when it has returned: its locals are gone, what
\* was observed of it stays
Returned(g) ==
  [g.frame EXCEPT !.done = TRUE, !.fast = g.fast, !.ret = g.ret,
                  !.accessToken = NONE, !.tokenExpiry = UndefNum, !.idx = 0]

\* what an observer keeps of the activation before the current one
Summary(fr, c) ==
  [ret |-> fr.ret, tNow |-> fr.nowL, exch |-> fr.exch, ncands |-> Len(fr.cands),
   cacheExpiry |-> c.expiry, cacheFilled |-> c.lastRefresh]

----------------------------------------------------------------------------
(* request-queue.ts and the fetch interceptor of index.ts *)

MIN_INTERVAL == 1000

JITTER_MIN == 500

JITTER_MAX == 1500

\* what one fetch of the server answers: a status and a Retry-After header
Response(status, retryAfter) == [status |-> status, retryAfter |-> retryAfter]

NoResponse == Response(0, NONE)

\* Number.parseInt(s, 10) on the header values the server sends here; NaN is
\* UndefNum
ParseInt(s) ==
  CASE s = "1" -> 1
    [] s = "2" -> 2
    [] s = "60" -> 60
    [] OTHER -> UndefNum

\* setTimeout(resolve, ms): NaN and negative delays fire at once
TimerDelay(ms) == IF ms = UndefNum THEN 0 ELSE Max(0, ms)

RetryDelayUnscaled(retryAfter) == ParseInt(OrStr(retryAfter, "60"))

\* lines 955-956: the delay handed to setTimeout, NaN when the header does not
\* parse
RetryDelayMs(retryAfter) ==
  LET n == ParseInt(OrStr(retryAfter, "60"))
  IN IF n = UndefNum THEN UndefNum ELSE n * 1000

\* one HTTP request as the server sees it: the call's input/init and the
\* Authorization header
Request(c, token, t) == [body |-> c, auth |-> token, t |-> t]

IdleFetch ==
  [phase |-> "bare", accessToken |-> NONE, wake |-> 0, first |-> NoResponse,
   tFirst |-> 0, retriedToken |-> NONE, reqs |-> <<>>, result |-> NoResponse]

NoSummary ==
  [ret |-> NONE, tNow |-> 0, exch |-> 0, ncands |-> 0, cacheExpiry |-> 0,
   cacheFilled |-> 0]

\* a task is executing from its dispatch until its promise settles
Executing(c) ==
  \/ pc[c] \in {"http1", "backoff", "http2"}
  \/ pc[c] \in {"getAuth", "refresh"} /\ fc[c].phase = "reauth"

\* line 199
WaitTime(t, last) == Max(0, MIN_INTERVAL - (t - last))

\* lines 205-206 and 940: the task is dispatched and sends its first request;
\* the record keeps when the dispatch was due (the end of the sleep, f.wake)
Dispatch(c, f, t) ==
  /\ lastRequestTime' = t
  /\ pc' = [pc EXCEPT ![c] = "http1"]
  /\ fc' = [fc EXCEPT ![c] = [f EXCEPT !.reqs = <<Request(c, f.accessToken, t)>>]]
  /\ hist' = [hist EXCEPT !.dispatch = Append(@, [call |-> c, t |-> t, due |-> f.wake]),
                          !.submit = IF c \in {@[i].call : i \in DOMAIN @} THEN @
                                     ELSE Append(@, [call |-> c, t |-> t])]

AfterTokenUnchecked(c, v, j, t) ==
  LET f == [fc[c] EXCEPT !.accessToken = v]
      wait == WaitTime(t, lastRequestTime) + j
  IN IF wait > 0
     THEN /\ pc' = [pc EXCEPT ![c] = "pacing"]
          /\ fc' = [fc EXCEPT ![c] = [f EXCEPT !.wake = t + wait]]
          /\ hist' = [hist EXCEPT !.submit = Append(@, [call |-> c, t |-> t])]
          /\ UNCHANGED lastRequestTime
     ELSE Dispatch(c, [f EXCEPT !.wake = t], t)

\* lines 927-939 and 197-206: fetch resumes with the resolved token v, and
\* enqueue runs up to its sleep, or through the dispatch when it does not sleep;
\* j is the jitter added to the sleep
AfterToken(c, v, j, t) ==
  IF ~Truthy(v)
  THEN /\ pc' = [pc EXCEPT ![c] = "thrown"]
       /\ UNCHANGED <<fc, hist, lastRequestTime>>
  ELSE LET f == [fc[c] EXCEPT !.accessToken = v]
           wait == WaitTime(t, lastRequestTime) + j
       IN IF wait > 0
          THEN /\ pc' = [pc EXCEPT ![c] = "pacing"]
               /\ fc' = [fc EXCEPT ![c] = [f EXCEPT !.wake = t + wait]]
               /\ hist' = [hist EXCEPT !.submit = Append(@, [call |-> c, t |-> t])]
               /\ UNCHANGED lastRequestTime
          ELSE Dispatch(c, [f EXCEPT !.wake = t], t)

AfterReauthAnyToken(c, v, t) ==
  /\ UNCHANGED <<hist, lastRequestTime>>
  /\ IF Truthy(v)
     THEN /\ pc' = [pc EXCEPT ![c] = "http2"]
          /\ fc' = [fc EXCEPT ![c].retriedToken = v,
                              ![c].reqs = Append(@, Request(c, v, t))]
     ELSE /\ pc' = [pc EXCEPT ![c] = "done"]
          /\ fc' = [fc EXCEPT ![c].retriedToken = v,
                              ![c].result = fc[c].first]

\* lines 948-952 and 960: the task resumes with the re-resolved token v
AfterReauth(c, v, t) ==
  /\ UNCHANGED <<hist, lastRequestTime>>
  /\ IF Truthy(v) /\ v # fc[c].accessToken
     THEN /\ pc' = [pc EXCEPT ![c] = "http2"]
          /\ fc' = [fc EXCEPT ![c].retriedToken = v,
                              ![c].reqs = Append(@, Request(c, v, t))]
     ELSE /\ pc' = [pc EXCEPT ![c] = "done"]
          /\ fc' = [fc EXCEPT ![c].retriedToken = v,
                              ![c].result = fc[c].first]

\* line 919: the loader's (or any other caller's) await resumes
AfterBare(p) ==
  /\ pc' = [pc EXCEPT ![p] = "idle"]
  /\ UNCHANGED <<fc, hist, lastRequestTime>>

\* an await inside getValidAccessToken has settled and the activation ran to
\* its next await (g.st = "refresh") or returned into its caller, which runs on
\* to its own next await
Resume(p, g, j) ==
  /\ cachedToken' = g.cache.token
  /\ cachedTokenExpiry' = g.cache.expiry
  /\ lastRefreshTime' = g.cache.lastRefresh
  /\ file' = g.file
  /\ gv' = [gv EXCEPT ![p] = IF g.st = "ret" THEN Returned(g) ELSE g.frame]
  /\ IF g.st = "refresh"
     THEN /\ pc' = [pc EXCEPT ![p] = "refresh"]
          /\ UNCHANGED <<fc, hist, lastRequestTime>>
     ELSE CASE fc[p].phase = "token" -> AfterToken(p, g.ret, j, now)
            [] fc[p].phase = "reauth" -> AfterReauth(p, g.ret, now)
            [] OTHER -> AfterBare(p)

----------------------------------------------------------------------------
(* Actions *)

Calls == {1, 2}

\* line 919 (the loader) or any other plain call: runs to await getAuth()
CallGvat(p) ==
  /\ pc[p] = "idle"
  /\ pc' = [pc EXCEPT ![p] = "getAuth"]
  /\ gv' = [gv EXCEPT ![p] = IdleFrame]
  /\ fc' = [fc EXCEPT ![p] = IdleFetch]
  /\ hist' = [hist EXCEPT !.prev = IF gv[p].done THEN Summary(gv[p], Cache)
                                   ELSE NoSummary]
  /\ UNCHANGED <<now, envVars, cacheVars, lastRequestTime, mergeVars, storeVars, loginVars>>

\* lines 946-947 seen from the cache: a caller that was given a token has it
\* rejected with 401/403, resets the cache and resolves again
ReauthCall(p) ==
  /\ pc[p] = "idle"
  /\ gv[p].done
  /\ Truthy(gv[p].ret)
  /\ cachedToken' = ResetCache.token
  /\ cachedTokenExpiry' = ResetCache.expiry
  /\ lastRefreshTime' = ResetCache.lastRefresh
  /\ pc' = [pc EXCEPT ![p] = "getAuth"]
  /\ gv' = [gv EXCEPT ![p] = [IdleFrame EXCEPT !.afterReset = TRUE]]
  /\ fc' = [fc EXCEPT ![p] = IdleFetch]
  /\ hist' = [hist EXCEPT !.prev = Summary(gv[p], Cache)]
  /\ UNCHANGED <<now, envVars, lastRequestTime, mergeVars, storeVars, loginVars>>

\* lines 925-926: fetch is called and runs to await getAuth()
FetchCall(c) ==
  /\ pc[c] \in {"idle", "done", "thrown"}
  /\ pc' = [pc EXCEPT ![c] = "getAuth"]
  /\ gv' = [gv EXCEPT ![c] = IdleFrame]
  /\ fc' = [fc EXCEPT ![c] = [IdleFetch EXCEPT !.phase = "token"]]
  /\ hist' = [hist EXCEPT !.calls = @ + 1]
  /\ UNCHANGED <<now, envVars, cacheVars, lastRequestTime, mergeVars, storeVars, loginVars>>

\* line 848 resolves
GetAuthReturns(p, j) ==
  /\ pc[p] = "getAuth"
  /\ Resume(p, GvatFromGetAuth(gv[p], auth, file, Cache, now), j)
  /\ UNCHANGED <<now, auth, mergeVars, storeVars, loginVars>>

\* line 869 settles
RefreshReturns(p, o, j) ==
  /\ pc[p] = "refresh"
  /\ Resume(p, GvatFromRefresh(gv[p], o, file, Cache, now), j)
  /\ UNCHANGED <<now, auth, mergeVars, storeVars, loginVars>>

\* line 202: the pacing timer fires
PacingDone(c) ==
  /\ pc[c] = "pacing"
  /\ now >= fc[c].wake
  /\ Dispatch(c, fc[c], now)
  /\ UNCHANGED <<now, envVars, cacheVars, gv, mergeVars, storeVars, loginVars>>

\* lines 940-960: the first response arrives
FirstResponse(c, r) ==
  /\ pc[c] = "http1"
  /\ UNCHANGED <<now, envVars, lastRequestTime, hist, mergeVars, storeVars, loginVars>>
  /\ IF r.status \in {401, 403}
     THEN /\ cachedToken' = ResetCache.token
          /\ cachedTokenExpiry' = ResetCache.expiry
          /\ lastRefreshTime' = ResetCache.lastRefresh
          /\ pc' = [pc EXCEPT ![c] = "getAuth"]
          /\ gv' = [gv EXCEPT ![c] = [IdleFrame EXCEPT !.afterReset = TRUE]]
          /\ fc' = [fc EXCEPT ![c].phase = "reauth", ![c].first = r,
                              ![c].tFirst = now]
     ELSE IF r.status = 429
     THEN /\ pc' = [pc EXCEPT ![c] = "backoff"]
          /\ fc' = [fc EXCEPT ![c].first = r, ![c].tFirst = now,
                              ![c].wake =
                                now + TimerDelay(RetryDelayMs(r.retryAfter))]
          /\ UNCHANGED <<cacheVars, gv>>
     ELSE /\ pc' = [pc EXCEPT ![c] = "done"]
          /\ fc' = [fc EXCEPT ![c].first = r, ![c].tFirst = now, ![c].result = r]
          /\ UNCHANGED <<cacheVars, gv>>

\* lines 956-957: the Retry-After timer fires and the request is sent again
BackoffDone(c) ==
  /\ pc[c] = "backoff"
  /\ now >= fc[c].wake
  /\ pc' = [pc EXCEPT ![c] = "http2"]
  /\ fc' = [fc EXCEPT ![c].reqs = Append(@, Request(c, fc[c].accessToken, now))]
  /\ UNCHANGED <<now, envVars, cacheVars, lastRequestTime, gv, hist, mergeVars, storeVars, loginVars>>

SecondResponseInspected(c, r) ==
  /\ pc[c] = "http2"
  /\ IF r.status = 429
     THEN /\ pc' = [pc EXCEPT ![c] = "backoff"]
          /\ fc' = [fc EXCEPT ![c].wake = now + TimerDelay(RetryDelayMs(r.retryAfter))]
     ELSE /\ pc' = [pc EXCEPT ![c] = "done"]
          /\ fc' = [fc EXCEPT ![c].result = r]
  /\ UNCHANGED <<now, envVars, cacheVars, lastRequestTime, gv, hist, mergeVars, storeVars, loginVars>>

\* lines 950 and 957: the follow-up's response is the task's result
SecondResponse(c, r) ==
  /\ pc[c] = "http2"
  /\ pc' = [pc EXCEPT ![c] = "done"]
  /\ fc' = [fc EXCEPT ![c].result = r]
  /\ UNCHANGED <<now, envVars, cacheVars, lastRequestTime, gv, hist, mergeVars, storeVars, loginVars>>

\* the clock
Tick(d) ==
  /\ now' = now + d
  /\ UNCHANGED <<envVars, cacheVars, lastRequestTime, callVars, mergeVars, storeVars, loginVars>>

\* the host replaces its auth record (a new login, its own refresh)
HostSetsAuth(a) ==
  /\ auth' = a
  /\ auth' # auth
  /\ UNCHANGED <<now, file, cacheVars, lastRequestTime, callVars, mergeVars, storeVars, loginVars>>

\* another program (the qwen-code CLI) rewrites or removes the credential file
ExternalFileWrite(f) ==
  /\ file' = f
  /\ file' # file
  /\ UNCHANGED <<now, auth, cacheVars, lastRequestTime, callVars, mergeVars, storeVars, loginVars>>

\* a bare call of mergeCredentialSources on the drawn inputs
Merge ==
  /\ mResult = NullCred
  /\ mResult' = mergeCredentialSources(mRuntime, mFile)
  /\ UNCHANGED <<now, envVars, cacheVars, lastRequestTime, callVars, mRuntime, mFile,
               loginVars, storeVars>>

IdleStore ==
  [saves |-> 0, prev |-> NullCred, last |-> NullCred, loads |-> 0,
   from |-> FileMissing, loaded |-> NullCred]

\* a bare call of saveCredentials(c)
SaveCall(c) ==
  /\ file' = saveCredentials(c)
  /\ store' = [store EXCEPT !.saves = @ + 1, !.prev = store.last, !.last = c,
                            !.loads = 0, !.loaded = NullCred]
  /\ UNCHANGED <<now, auth, cacheVars, lastRequestTime, callVars, mergeVars, loginVars>>

\* a bare call of loadCredentials()
LoadCall ==
  /\ store' = [store EXCEPT !.loads = @ + 1, !.from = file,
                            !.loaded = loadCredentials(file)]
  /\ UNCHANGED <<now, envVars, cacheVars, lastRequestTime, callVars, mergeVars, loginVars>>

----------------------------------------------------------------------------
(* index.ts: authorize.callback, the device-flow polling loop *)

POLLING_MARGIN_MS == 3000

NoResult == [type |-> "none"]

Failed == [type |-> "failed"]

\* lines 998-1003
Success(credentials, t) ==
  [type |-> "success",
   access |-> credentials.accessToken,
   refresh |-> IF credentials.refreshToken = NONE THEN "" ELSE credentials.refreshToken,
   expires |-> OrNum(credentials.expiryDate, t + DEFAULT_LIFETIME_MS)]

\* startTime, timeoutMs, interval; advertised: deviceAuth.interval, in seconds;
\* polls: when each poll was issued; outcomes: what each poll gave; waited: the
\* sum of the delays given to setTimeout
IdleLogin ==
  [pc |-> "idle", startTime |-> 0, timeoutMs |-> 0, interval |-> 0, advertised |-> 0,
   wake |-> 0, polls |-> <<>>, outcomes |-> <<>>, waited |-> 0, result |-> NoResult]

LoopHeadNoDeadline(l, t) ==
  [l EXCEPT !.pc = "sleep",
            !.wake = t + l.interval + POLLING_MARGIN_MS,
            !.waited = @ + l.interval + POLLING_MARGIN_MS]

LoopHeadNoMargin(l, t) ==
  IF t - l.startTime < l.timeoutMs
  THEN [l EXCEPT !.pc = "sleep", !.wake = t + l.interval, !.waited = @ + l.interval]
  ELSE [l EXCEPT !.pc = "done", !.result = Failed]

\* lines 988-989 and 1015: the loop test, then the sleep or the final failed
LoopHead(l, t) ==
  IF t - l.startTime < l.timeoutMs
  THEN [l EXCEPT !.pc = "sleep",
                 !.wake = t + l.interval + POLLING_MARGIN_MS,
                 !.waited = @ + l.interval + POLLING_MARGIN_MS]
  ELSE [l EXCEPT !.pc = "done", !.result = Failed]

\* line 1007
SlowedDownUncapped(interval) == interval + 5000

SlowedDown(interval) ==
  IF interval + 5000 <= 15000 THEN interval + 5000 ELSE 15000

AfterPollKeepsPolling(l, o, f, t) ==
  LET l1 == [l EXCEPT !.outcomes = Append(@, o)]
  IN CASE o.kind = "token" /\ o.save = "ok" ->
            [login |-> LoopHead(l1, t), file |-> saveCredentials(o.cred)]
       [] o.kind = "token" /\ o.save = "throws" ->
            [login |-> [l1 EXCEPT !.pc = "done", !.result = Failed], file |-> f]
       [] o.kind = "slow_down" ->
            [login |-> LoopHead([l1 EXCEPT !.interval = SlowedDown(@)], t), file |-> f]
       [] o.kind = "error" ->
            [login |-> [l1 EXCEPT !.pc = "done", !.result = Failed], file |-> f]
       [] OTHER ->
            [login |-> LoopHead(l1, t), file |-> f]

AfterPollIgnoresErrors(l, o, f, t) ==
  LET l1 == [l EXCEPT !.outcomes = Append(@, o)]
  IN CASE o.kind = "token" /\ o.save = "ok" ->
            [login |-> [l1 EXCEPT !.pc = "done", !.result = Success(o.cred, t)],
             file |-> saveCredentials(o.cred)]
       [] o.kind = "token" /\ o.save = "throws" ->
            [login |-> [l1 EXCEPT !.pc = "done", !.result = Failed], file |-> f]
       [] o.kind = "slow_down" ->
            [login |-> LoopHead([l1 EXCEPT !.interval = SlowedDown(@)], t), file |-> f]
       [] OTHER ->
            [login |-> LoopHead(l1, t), file |-> f]

\* lines 992-1012: pollDeviceToken settles with o; the login record and the
\* credential file afterwards
AfterPoll(l, o, f, t) ==
  LET l1 == [l EXCEPT !.outcomes = Append(@, o)]
  IN CASE o.kind = "token" /\ o.save = "ok" ->
            [login |-> [l1 EXCEPT !.pc = "done", !.result = Success(o.cred, t)],
             file |-> saveCredentials(o.cred)]
       [] o.kind = "token" /\ o.save = "throws" ->
            \* the write throws an Error that is neither SlowDownError nor pending
            [login |-> [l1 EXCEPT !.pc = "done", !.result = Failed], file |-> f]
       [] o.kind = "slow_down" ->
            [login |-> LoopHead([l1 EXCEPT !.interval = SlowedDown(@)], t), file |-> f]
       [] o.kind = "error" ->
            [login |-> [l1 EXCEPT !.pc = "done", !.result = Failed], file |-> f]
       [] OTHER ->
            \* a falsy return, or an Error naming authorization_pending
            [login |-> LoopHead(l1, t), file |-> f]

\* lines 984-989: the callback starts; e is deviceAuth.expires_in and i is
\* deviceAuth.interval, which the callback does not read
CallbackStart(e, i) ==
  /\ login.pc = "idle"
  /\ login' = LoopHead([IdleLogin EXCEPT !.startTime = now, !.timeoutMs = e * 1000,
                                         !.interval = 5000, !.advertised = i], now)
  /\ UNCHANGED <<now, envVars, cacheVars, lastRequestTime, callVars, mergeVars, storeVars>>

\* lines 989-992: the sleep is over and pollDeviceToken is called
PollIssued ==
  /\ login.pc = "sleep"
  /\ now >= login.wake
  /\ login' = [login EXCEPT !.pc = "poll", !.polls = Append(@, now)]
  /\ UNCHANGED <<now, envVars, cacheVars, lastRequestTime, callVars, mergeVars, storeVars>>

\* lines 992-1015: pollDeviceToken settles
PollSettles(o) ==
  /\ login.pc = "poll"
  /\ LET r == AfterPoll(login, o, file, now)
     IN /\ login' = r.login
        /\ file' = r.file
  /\ UNCHANGED <<now, auth, cacheVars, lastRequestTime, callVars, mergeVars, storeVars>>

\* lines 849-851 on their own: both sources are converted and reconciled
Reconcile ==
  /\ mResult = NullCred
  /\ mRuntime' = runtimeAuthToCredentials(auth)
  /\ mFile' = loadCredentials(file)
  /\ mResult' = mergeCredentialSources(mRuntime', mFile')
  /\ UNCHANGED <<now, envVars, cacheVars, lastRequestTime, callVars, loginVars,
                 storeVars>>

----------------------------------------------------------------------------
(* Reconciliation as a pure function: SpecMerge *)

MaxExpiry == 2

MergeTokens == {NONE, "", "T1", "T2"}

MergeRefresh == {NONE, "", "A", "B"}

MergeExpiries == {UndefNum} \cup {1000 * k : k \in 1..MaxExpiry}

MergeAuths ==
  {NullAuth, [type |-> "api", access |-> "T1", refresh |-> NONE, expires |-> UndefNum]}
  \cup {OAuth(a, r, e) : a \in MergeTokens, r \in MergeRefresh, e \in MergeExpiries}

MergeFiles ==
  {FileMissing, FileCorrupt}
  \cup {FileJson(a, "Bearer", r, NONE, e, NONE) :
          a \in MergeTokens, r \in MergeRefresh, e \in MergeExpiries}

IdleCalls ==
  /\ pc = [c \in Calls |-> "idle"]
  /\ gv = [c \in Calls |-> IdleFrame]
  /\ fc = [c \in Calls |-> IdleFetch]
  /\ hist = [dispatch |-> <<>>, submit |-> <<>>, prev |-> NoSummary, calls |-> 0]
  /\ login = IdleLogin
  /\ store = IdleStore
  /\ cachedToken = NONE
  /\ cachedTokenExpiry = 0
  /\ lastRefreshTime = 0
  /\ lastRequestTime = 0

InitMerge ==
  /\ IdleCalls
  /\ now = 0
  /\ auth = NullAuth
  /\ file = FileMissing
  /\ mRuntime \in {runtimeAuthToCredentials(a) : a \in MergeAuths}
  /\ mFile \in {loadCredentials(f) : f \in MergeFiles}
  /\ mResult = NullCred

NextMerge == Merge

SpecMerge == InitMerge /\ [][NextMerge]_vars

\* the source the reconciliation is to prefer: the one with the larger expiry,
\* an absent expiry ranking lowest; the runtime source on a tie
HasLargerExpiry(a, b) ==
  /\ a.expiryDate # UndefNum
  /\ b.expiryDate = UndefNum \/ a.expiryDate > b.expiryDate

PreferredSource ==
  IF mRuntime.nil THEN mFile
  ELSE IF mFile.nil THEN mRuntime
  ELSE IF HasLargerExpiry(mFile, mRuntime) THEN mFile
  ELSE mRuntime

FirstTruthy(a, b, c) ==
  IF Truthy(a) THEN a ELSE IF Truthy(b) THEN b ELSE IF Truthy(c) THEN c ELSE NONE

\* C9: the reconciled access token is the token of the source with the larger
\* expiryDate, else the runtime token, else the file token; it is null only
\* when neither source has an access token.
C9_FreshestToken ==
  mResult # NullCred =>
    /\ mResult.accessToken =
         FirstTruthy(OptAccess(PreferredSource), OptAccess(mRuntime), OptAccess(mFile))
    /\ mResult.accessToken = NONE <=>
         ~Truthy(OptAccess(mRuntime)) /\ ~Truthy(OptAccess(mFile))

C9_Witness ==
  /\ mResult # NullCred
  /\ ~mRuntime.nil /\ ~mFile.nil
  /\ HasLargerExpiry(mFile, mRuntime)
  /\ Truthy(mRuntime.accessToken) /\ Truthy(mFile.accessToken)
  /\ mRuntime.accessToken # mFile.accessToken
  /\ mResult.accessToken = mFile.accessToken

\* the candidates the reconciliation is to produce: present entries only, each
\* once, in order of first occurrence
RECURSIVE DedupPresent(_, _)
DedupPresent(s, seen) ==
  IF s = <<>> THEN <<>>
  ELSE IF ~Truthy(Head(s)) \/ Head(s) \in seen THEN DedupPresent(Tail(s), seen)
  ELSE <<Head(s)>> \o DedupPresent(Tail(s), seen \cup {Head(s)})

\* C10: refreshCandidates is [freshest.refreshToken, file.refreshToken,
\* runtime.refreshToken] without absent or empty entries and without duplicates
\* (first occurrence kept); it never holds a token twice, and is ["A"] when
\* every source carries "A".
C10_Candidates ==
  mResult # NullCred =>
    LET rc == mResult.refreshCandidates IN
    /\ rc = DedupPresent(<<OptRefresh(PreferredSource), OptRefresh(mFile),
                           OptRefresh(mRuntime)>>, {})
    /\ \A i, k \in DOMAIN rc : rc[i] = rc[k] => i = k
    /\ (OptRefresh(mRuntime) = "A" /\ OptRefresh(mFile) = "A") => rc = <<"A">>

C10_Witness ==
  /\ mResult # NullCred
  /\ OptRefresh(mRuntime) = "A" /\ OptRefresh(mFile) = "A"
  /\ mResult.refreshCandidates = <<"A">>

----------------------------------------------------------------------------
(* The two converters on every host state and every file: SpecLoad *)

InitLoad ==
  /\ IdleCalls
  /\ now = 0
  /\ auth \in MergeAuths
  /\ file \in MergeFiles
  /\ mRuntime = NullCred
  /\ mFile = NullCred
  /\ mResult = NullCred

NextLoad == Reconcile

SpecLoad == InitLoad /\ [][NextLoad]_vars

Converted == {c \in {mRuntime, mFile} : mResult # NullCred /\ ~c.nil}

\* C11 as claimed: every credential the two converters return has a non-empty
\* accessToken.
C11_AccessTokenNonEmpty ==
  \A c \in Converted : Truthy(c.accessToken)

\* C11 amended: every credential the two converters return has a string
\* accessToken, never null or undefined, and carries at least one non-empty
\* token: the accessToken is "" exactly when the source has only a refresh
\* token.
C11_SomeTokenNonEmpty ==
  \A c \in Converted :
    /\ c.accessToken # NONE
    /\ Truthy(c.accessToken) \/ Truthy(c.refreshToken)
    /\ c.accessToken = "" => Truthy(c.refreshToken)

C11_Witness ==
  /\ mResult # NullCred
  /\ ~mFile.nil /\ mFile.accessToken = "" /\ mFile.refreshToken = "A"
  /\ ~mRuntime.nil /\ mRuntime.accessToken = "T1"
  /\ file.access_token = NONE

----------------------------------------------------------------------------
(* Token resolution, one call after the other: SpecToken *)

MaxTokenTicks == 4

\* the clock moves in steps of half the cache window
TokenStep == TOKEN_CACHE_DURATION \div 2

TokenEpoch == 4 * TOKEN_CACHE_DURATION

\* expiry dates around the start: none, passed, inside the refresh lead time,
\* beyond it
TokenExpiries ==
  {UndefNum, TokenEpoch - TokenStep, TokenEpoch + TokenStep,
   TokenEpoch + 2 * TOKEN_CACHE_DURATION}

TokenAuths ==
  {NullAuth, OAuth("T1", NONE, TokenEpoch - TokenStep)}
  \cup {OAuth("T1", "R1", e) : e \in TokenExpiries}

TokenFiles ==
  {FileMissing}
  \cup {FileJson("T2", "Bearer", r, NONE, e, NONE) :
          r \in {"R2"},
          e \in {TokenEpoch - TokenStep, TokenEpoch + 2 * TOKEN_CACHE_DURATION}}

\* what refreshAccessToken can do at clock t: reject, or return a credential
\* with a new access token, with or without an expiry
RefreshOutcomes(t) ==
  {[kind |-> "rejected"]}
  \cup {[kind |-> k, cred |-> Cred("T3", "Bearer", "R3", NONE, e, NONE)] :
          k \in {"ok", "saveThrows"}, e \in {UndefNum, t + TokenStep}}

InitToken ==
  /\ IdleCalls
  /\ now = TokenEpoch
  /\ auth \in TokenAuths
  /\ file \in TokenFiles
  /\ mRuntime = NullCred
  /\ mFile = NullCred
  /\ mResult = NullCred

NextToken ==
  \/ CallGvat(1)
  \/ ReauthCall(1)
  \/ GetAuthReturns(1, 0)
  \/ \E o \in RefreshOutcomes(now) : RefreshReturns(1, o, 0)
  \/ now < TokenEpoch + MaxTokenTicks * TokenStep /\ Tick(TokenStep)
  \/ \E a \in TokenAuths : pc[1] = "getAuth" /\ HostSetsAuth(a)
  \/ \E f \in TokenFiles : pc[1] = "getAuth" /\ ExternalFileWrite(f)

SpecToken == InitToken /\ [][NextToken]_vars

\* C6 as claimed: two consecutive resolutions, the first returning a token and
\* the second reading the clock less than TOKEN_CACHE_DURATION after the first
\* did, issue at most one refresh exchange together (here even with no cache
\* reset between the two).
C6_AtMostOneExchange ==
  LET cur == gv[1]
      prev == hist.prev
  IN (/\ cur.done /\ Truthy(prev.ret) /\ ~cur.afterReset
      /\ cur.nowL - prev.tNow < TOKEN_CACHE_DURATION)
       => prev.exch + cur.exch <= 1

\* C6 amended: with no cache reset in between, and the second resolution
\* reading the clock less than TOKEN_CACHE_DURATION after the cache was last
\* filled and before the cached expiry, the second resolution issues no
\* exchange and returns the token of the first; the two together issue the
\* exchanges of the first, at most one per refresh candidate.
C6_SecondIsCached ==
  LET cur == gv[1]
      prev == hist.prev
  IN (/\ cur.done /\ Truthy(prev.ret) /\ ~cur.afterReset
      /\ cur.nowL - prev.cacheFilled < TOKEN_CACHE_DURATION
      /\ cur.nowL < prev.cacheExpiry)
       => /\ cur.fast
          /\ cur.exch = 0
          /\ cur.ret = prev.ret
          /\ prev.exch + cur.exch <= prev.ncands

C6_Witness ==
  /\ gv[1].done /\ gv[1].fast /\ gv[1].exch = 0
  /\ Truthy(hist.prev.ret) /\ hist.prev.exch = 1
  /\ gv[1].ret = hist.prev.ret
  /\ gv[1].nowL > hist.prev.tNow
  /\ gv[1].nowL - hist.prev.tNow < TOKEN_CACHE_DURATION

----------------------------------------------------------------------------
(* Further claims on getValidAccessToken, under SpecToken *)

\* the step in which the activation of call 1 returns
Returns == ~gv[1].done /\ gv'[1].done

\* C16: a call that finds the cache holding a token, now < cachedTokenExpiry and
\* now - lastRefreshTime < TOKEN_CACHE_DURATION returns the cached token, leaves
\* the cache as it was, exchanges no token and neither reads nor writes the
\* credential file.
C16_FastPathTouchesNothing ==
  [][(pc[1] = "getAuth" /\ pc'[1] # "getAuth" /\ FastPath(Cache, now)) =>
       /\ gv'[1].done
       /\ gv'[1].ret = cachedToken
       /\ Cache' = Cache
       /\ gv'[1].exch = 0
       /\ file' = file
       /\ ~gv'[1].loaded]_vars

\* the activation of call 1 has read the clock and did not take the fast path
Resolving == gv[1].nowL > 0 /\ ~gv[1].fast /\ (gv[1].done \/ pc[1] = "refresh")

LeadTimeReached(fr) == fr.nowL > fr.mExpiry - REFRESH_BEFORE_EXPIRY_MS

\* C17: off the fast path an exchange is attempted exactly when there is a
\* refresh candidate and the access token is missing, or its expiry is missing,
\* or now is later than expiry - 5 minutes.
C17_RefreshIffDue ==
  Resolving =>
    LET fr == gv[1]
        due == \/ fr.mAccess \in {NONE, ""}
               \/ fr.mExpiry \in {UndefNum, 0}
               \/ LeadTimeReached(fr)
    IN /\ fr.exch > 0 <=> (fr.cands # <<>> /\ due)
       /\ (fr.mAccess = "T1" /\ fr.mExpiry - fr.nowL > REFRESH_BEFORE_EXPIRY_MS)
            => fr.exch = 0
       /\ (fr.mAccess = "T1" /\ fr.mExpiry > 0 /\ fr.cands # <<>>
           /\ fr.mExpiry - fr.nowL < REFRESH_BEFORE_EXPIRY_MS)
            => fr.exch > 0

C17_Witness ==
  /\ Resolving
  /\ gv[1].mAccess = "T1"
  /\ gv[1].mExpiry - gv[1].nowL = TokenStep
  /\ gv[1].cands = <<"R1", "R2">>
  /\ gv[1].exch = 1
  /\ pc[1] = "refresh"

\* C18: candidates are exchanged one at a time in the order of
\* refreshCandidates; at the first whose refreshed credential is obtained and
\* written, the file holds that credential, the cache is (its token, its expiry,
\* lastRefresh = now), the token is returned and no later candidate is tried.
C18_FirstSuccessWins ==
  /\ [](pc[1] = "refresh" =>
          gv[1].idx = gv[1].exch /\ gv[1].idx \in 1..Len(gv[1].cands))
  /\ [][(pc[1] = "refresh" /\ pc'[1] = "refresh" /\ gv'[1] # gv[1]) =>
          gv'[1].idx = gv[1].idx + 1]_vars
  /\ [][(pc[1] = "refresh" /\ gv'[1].refreshedAt > 0) =>
          /\ gv'[1].done
          /\ gv'[1].refreshedAt = gv[1].idx
          /\ gv'[1].exch = gv[1].idx
          /\ gv'[1].ret = "T3"
          /\ file'.kind = "json" /\ file'.access_token = gv'[1].ret
          /\ cachedToken' = gv'[1].ret
          /\ cachedTokenExpiry' = OrNum(file'.expiry_date, now + DEFAULT_LIFETIME_MS)
          /\ lastRefreshTime' = now]_vars

C18_Witness ==
  /\ gv[1].done
  /\ gv[1].refreshedAt = 2
  /\ Len(gv[1].cands) = 2
  /\ gv[1].ret = "T3"
  /\ cachedToken = "T3"
  /\ lastRefreshTime > gv[1].nowL
  /\ file.access_token = "T3"

\* C19: when every candidate fails (rejected, or the write of its result
\* throws), all candidates were tried, and the expiry check, the caching and the
\* return value use the reconciled token and expiry.
C19_FailuresFallThrough ==
  LET fr == gv[1] IN
  (fr.done /\ ~fr.fast /\ fr.exch > 0 /\ fr.refreshedAt = 0) =>
    /\ fr.exch = Len(fr.cands)
    /\ fr.ret = IF HardExpired(fr.mAccess, fr.mExpiry, fr.nowL) THEN NONE
                ELSE fr.mAccess
    /\ Truthy(fr.ret) =>
         /\ cachedToken = fr.mAccess
         /\ NumTruthy(fr.mExpiry) => cachedTokenExpiry = fr.mExpiry

\* C20: at the moment a call returns, cachedToken is null or cachedTokenExpiry
\* is not earlier than now.
C20_CacheNeverStale ==
  [][Returns => (cachedToken' = NONE \/ cachedTokenExpiry' >= now')]_vars

----------------------------------------------------------------------------
(* Fetch calls, one after the other, with every follow-up: SpecFetch *)

MaxFetchTicks == 4

MaxFetchCalls == 2

\* the clock moves in half jitter steps, or straight to a pending timer
FetchStep == JITTER_MIN

JitterChoicesUncapped == {JITTER_MIN, JITTER_MIN + 3 * MIN_INTERVAL}

\* getJitter: Math.random() * (JITTER_MAX - JITTER_MIN) + JITTER_MIN, on that
\* grid; Math.random() is below 1, so JITTER_MAX itself is never drawn
JitterChoices == {j \in {JITTER_MIN + k * FetchStep : k \in 0..2} : j < JITTER_MAX}

FetchAuths ==
  {NullAuth,
   OAuth("T1", "R1", TokenEpoch + TokenStep),
   OAuth("T1", "R1", TokenEpoch - TokenStep)}

FetchRefreshOutcomes ==
  {[kind |-> "rejected"]}
  \cup {[kind |-> k, cred |-> Cred("T3", "Bearer", "R3", NONE, UndefNum, NONE)] :
          k \in {"ok", "saveThrows"}}

FirstResponses ==
  {Response(st, NONE) : st \in {200, 401, 403, 429}}
  \cup {Response(429, h) : h \in {"1", "soon"}}

SecondResponses == {Response(st, NONE) : st \in {200, 401, 429}}

PendingTimers == {fc[c].wake : c \in {d \in Calls : pc[d] \in {"pacing", "backoff"}}}

InitFetch ==
  /\ IdleCalls
  /\ now = TokenEpoch
  /\ auth \in FetchAuths
  /\ file = FileMissing
  /\ mRuntime = NullCred
  /\ mFile = NullCred
  /\ mResult = NullCred

NextFetch ==
  \/ hist.calls < MaxFetchCalls /\ FetchCall(1)
  \/ \E j \in JitterChoices : GetAuthReturns(1, j)
  \/ \E o \in FetchRefreshOutcomes, j \in JitterChoices : RefreshReturns(1, o, j)
  \/ PacingDone(1)
  \/ \E r \in FirstResponses : FirstResponse(1, r)
  \/ BackoffDone(1)
  \/ \E r \in SecondResponses : SecondResponse(1, r)
  \/ now < TokenEpoch + MaxFetchTicks * FetchStep /\ Tick(FetchStep)
  \/ \E w \in PendingTimers : w > now /\ Tick(w - now)

SpecFetch == InitFetch /\ [][NextFetch]_vars

----------------------------------------------------------------------------
(* Two fetch calls in flight together: SpecQueue *)

MaxQueueTicks == 4

QueueFirstResponses == {Response(200, NONE), Response(429, "1")}

InitQueue ==
  /\ IdleCalls
  /\ now = TokenEpoch
  /\ auth = OAuth("T1", NONE, TokenEpoch + 2 * TOKEN_CACHE_DURATION)
  /\ file = FileMissing
  /\ mRuntime = NullCred
  /\ mFile = NullCred
  /\ mResult = NullCred

NextQueue ==
  \/ \E c \in Calls : pc[c] = "idle" /\ FetchCall(c)
  \/ \E c \in Calls, j \in JitterChoices : GetAuthReturns(c, j)
  \/ \E c \in Calls : PacingDone(c)
  \/ \E c \in Calls, r \in QueueFirstResponses : FirstResponse(c, r)
  \/ \E c \in Calls : BackoffDone(c)
  \/ \E c \in Calls : SecondResponse(c, Response(200, NONE))
  \/ now < TokenEpoch + MaxQueueTicks * FetchStep /\ Tick(FetchStep)
  \/ \E w \in PendingTimers : w > now /\ Tick(w - now)

SpecQueue == InitQueue /\ [][NextQueue]_vars

----------------------------------------------------------------------------
(* The queue's claims, under SpecQueue *)

\* C1: tasks start in submission order and the execution windows of two tasks
\* never overlap.
C1_FifoSingleFlight ==
  /\ \A c, d \in Calls : c # d => ~(Executing(c) /\ Executing(d))
  /\ \A i \in DOMAIN hist.dispatch : hist.dispatch[i].call = hist.submit[i].call

\* C2: the dispatch timestamps of two consecutively dispatched tasks differ by
\* at least MIN_INTERVAL.
C2_MinDispatchGap ==
  \A i \in DOMAIN hist.dispatch :
    i > 1 => hist.dispatch[i].t - hist.dispatch[i - 1].t >= MIN_INTERVAL

\* when enqueue was called for the task dispatched i-th
SubmitTime(i) ==
  LET k == CHOOSE k \in DOMAIN hist.submit :
             hist.submit[k].call = hist.dispatch[i].call
  IN hist.submit[k].t

\* the i-th dispatch happened when its sleep was due
OnTime(i) == hist.dispatch[i].t = hist.dispatch[i].due

----------------------------------------------------------------------------
(* The interceptor's claims, under SpecFetch *)

AuthFailure(r) == r.status \in {401, 403}

\* C3: after a first response of 401 or 403 the cache is reset and a token is
\* resolved again; a non-null token that differs from the first request's gives
\* exactly one retry carrying it, anything else gives no retry and the first
\* response as the result.
C3_AuthRetry ==
  /\ [](\A c \in Calls :
          (pc[c] = "done" /\ AuthFailure(fc[c].first)) =>
            /\ gv[c].done /\ gv[c].afterReset
            /\ IF Truthy(gv[c].ret) /\ gv[c].ret # fc[c].reqs[1].auth
               THEN /\ Len(fc[c].reqs) = 2
                    /\ fc[c].reqs[2].auth = gv[c].ret
                    /\ fc[c].reqs[2].body = fc[c].reqs[1].body
               ELSE /\ Len(fc[c].reqs) = 1
                    /\ fc[c].result = fc[c].first)
  /\ [][\A c \in Calls :
          (pc[c] = "http1" /\ pc'[c] # "http1" /\ AuthFailure(fc'[c].first)) =>
            /\ Cache' = ResetCache
            /\ pc'[c] = "getAuth"]_vars

C3_Witness ==
  /\ pc[1] = "done"
  /\ AuthFailure(fc[1].first)
  /\ Len(fc[1].reqs) = 2
  /\ fc[1].reqs[1].auth = "T1"
  /\ fc[1].reqs[2].auth = "T3"
  /\ gv[1].ret = "T3"

\* C4: after a first response of 429 with Retry-After: N exactly one retry is
\* issued, not before N seconds have passed since the 429 arrived, with the
\* body and headers of the first request.
C4_RateLimitRetry ==
  \A c \in Calls :
    LET f == fc[c]
        n == ParseInt(f.first.retryAfter)
    IN (f.first.status = 429 /\ n # UndefNum) =>
         /\ Len(f.reqs) <= 2
         /\ pc[c] = "done" => Len(f.reqs) = 2
         /\ Len(f.reqs) = 2 =>
              /\ f.reqs[2].t >= f.tFirst + n * 1000
              /\ f.reqs[2].body = f.reqs[1].body
              /\ f.reqs[2].auth = f.reqs[1].auth

C4_Witness ==
  /\ pc[1] = "done"
  /\ fc[1].first = Response(429, "1")
  /\ Len(fc[1].reqs) = 2
  /\ fc[1].reqs[2].t = fc[1].tFirst + 1000

\* C5: one fetch call issues at most two requests; the response to the retry is
\* the call's result whatever its status.
C5_AtMostTwoRequests ==
  \A c \in Calls :
    /\ Len(fc[c].reqs) <= 2
    /\ Len(fc[c].reqs) = 2 => pc[c] \in {"http2", "done"}

C5_Witness ==
  /\ pc[1] = "done"
  /\ Len(fc[1].reqs) = 2
  /\ fc[1].first.status = 401
  /\ fc[1].result.status = 429

\* C8: when the resolution at the start of fetch yields no token, fetch throws:
\* nothing is enqueued, no request is sent, lastRequestTime stays, and the call
\* does nothing more.
C8_NoTokenFailsFast ==
  /\ [](\A c \in Calls :
          (fc[c].phase = "token" /\ gv[c].done /\ ~Truthy(gv[c].ret)) =>
            /\ pc[c] = "thrown"
            /\ fc[c].reqs = <<>>
            /\ fc[c].result = NoResponse)
  /\ [][\A c \in Calls :
          /\ (pc[c] # "thrown" /\ pc'[c] = "thrown") =>
               /\ pc[c] \in {"getAuth", "refresh"}
               /\ lastRequestTime' = lastRequestTime
               /\ hist'.submit = hist.submit
               /\ hist'.dispatch = hist.dispatch
          /\ (pc[c] = "thrown" /\ pc'[c] # "thrown") =>
               (pc'[c] = "getAuth" /\ hist'.calls = hist.calls + 1)]_vars

C8_Witness ==
  /\ pc[1] = "thrown"
  /\ gv[1].done /\ gv[1].exch = 1 /\ gv[1].ret = NONE
  /\ hist.calls = 2
  /\ lastRequestTime > 0

----------------------------------------------------------------------------
(* One login through the device flow: SpecLogin *)

MaxPolls == 4

MaxLoginTicks == 3

\* a late timer or a slow poll, in half sleeps
LoginStep == (5000 + POLLING_MARGIN_MS) \div 2

\* deviceAuth.expires_in, in seconds
LoginExpiries == {0, 20, 1800}

\* deviceAuth.interval, in seconds
LoginIntervals == {5, 10}

\* what tokenResponseToCredentials returns for the token response
LoginCreds ==
  {Cred("T3", "Bearer", r, NONE, e, NONE) :
     r \in {NONE, "R3"}, e \in {UndefNum, TokenEpoch + DEFAULT_LIFETIME_MS}}

\* how pollDeviceToken settles: a falsy return, an Error naming
\* authorization_pending, SlowDownError, any other error, or a token response
\* (whose write to the credential file may throw)
PollOutcomes ==
  {[kind |-> k] : k \in {"null", "pending", "slow_down", "error"}}
  \cup {[kind |-> "token", cred |-> c, save |-> sv] :
          c \in LoginCreds, sv \in {"ok", "throws"}}

InitLogin ==
  /\ IdleCalls
  /\ now = TokenEpoch
  /\ auth = NullAuth
  /\ file \in {FileMissing, FileJson("T2", "Bearer", "R2", NONE, TokenEpoch, NONE)}
  /\ mRuntime = NullCred
  /\ mFile = NullCred
  /\ mResult = NullCred

NextLogin ==
  \/ \E e \in LoginExpiries, i \in LoginIntervals : CallbackStart(e, i)
  \/ Len(login.polls) < MaxPolls /\ PollIssued
  \/ \E o \in PollOutcomes : PollSettles(o)
  \/ now < TokenEpoch + MaxLoginTicks * LoginStep /\ Tick(LoginStep)
  \/ login.pc = "sleep" /\ login.wake > now /\ Tick(login.wake - now)

SpecLogin == InitLogin /\ [][NextLogin]_vars

Deadline == login.startTime + login.timeoutMs

\* C13: no poll is issued, and success is never returned, once more than
\* expires_in seconds have passed since the loop started.
C13_NothingAfterDeadline ==
  /\ \A i \in DOMAIN login.polls : login.polls[i] <= Deadline
  /\ login.result.type = "success" => now <= Deadline

\* the first k-1 polls gave authorization_pending and the k-th a token that was
\* written
PendingThenToken(k) ==
  /\ Len(login.outcomes) >= k
  /\ \A i \in 1..(k - 1) : login.outcomes[i].kind \in {"null", "pending", "slow_down"}
  /\ login.outcomes[k].kind = "token"
  /\ login.outcomes[k].save = "ok"

\* C14: whatever pending and slow_down outcomes came before, the first poll that
\* gives a token response ends the callback with success and the access token
\* of that credential, the credential being in the file by then; no poll
\* follows it.
C14_FirstTokenSucceeds ==
  \A k \in 1..MaxPolls + 1 :
    PendingThenToken(k) =>
      /\ login.pc = "done"
      /\ Len(login.outcomes) = k /\ Len(login.polls) = k
      /\ login.result.type = "success"
      /\ login.result.access = login.outcomes[k].cred.accessToken
      /\ file = saveCredentials(login.outcomes[k].cred)
      /\ loadCredentials(file).accessToken = login.result.access

C14_Witness ==
  /\ PendingThenToken(3)
  /\ login.outcomes[1].kind = "slow_down"
  /\ login.outcomes[2].kind = "pending"
  /\ login.result.type = "success"
  /\ login.result.access = "T3"
  /\ file.access_token = "T3"

ThreePendingThenSuccess ==
  /\ login.timeoutMs = 1800 * 1000
  /\ Len(login.outcomes) = 4
  /\ \A i \in 1..3 : login.outcomes[i].kind = "pending"
  /\ login.outcomes[4].kind = "token"
  /\ login.result.type = "success"

\* C15 as claimed: with expires_in = 1800, three authorization_pending polls
\* and then a token give success, the successful poll coming after
\* 3 * (5 + 3) = 24 seconds of waiting.
C15_ThreeWaits ==
  ThreePendingThenSuccess => login.waited = 3 * (5000 + POLLING_MARGIN_MS)

\* C15 amended: they give success, the successful poll coming after
\* 4 * (5 + 3) = 32 seconds of waiting, one wait before each of the four
\* polls, and no sooner than 32 seconds after the callback started.
C15_FourWaits ==
  ThreePendingThenSuccess =>
    /\ login.waited = 4 * (5000 + POLLING_MARGIN_MS)
    /\ login.polls[4] - login.startTime >= 4 * (5000 + POLLING_MARGIN_MS)
    /\ \A i \in 1..4 :
         login.polls[i] - (IF i = 1 THEN login.startTime ELSE login.polls[i - 1])
           >= 5000 + POLLING_MARGIN_MS

C15_Witness ==
  /\ ThreePendingThenSuccess
  /\ login.polls[4] - login.startTime = 32000
  /\ login.result.access = "T3"

----------------------------------------------------------------------------
(* The Retry-After default, under SpecFetch *)

\* C21: on a first response of 429 the wait before the retry is 60 seconds when
\* Retry-After is absent or does not parse as a number of seconds, and N seconds
\* when it parses to N.
C21_RetryAfterDefault ==
  \A c \in Calls :
    (pc[c] = "backoff" /\ fc[c].first.status = 429) =>
      LET n == ParseInt(fc[c].first.retryAfter)
      IN fc[c].wake - fc[c].tFirst = IF n = UndefNum THEN 60 * 1000 ELSE n * 1000

----------------------------------------------------------------------------
(* Further claims on the polling loop, under SpecLogin *)

\* C22: the interval starts at the interval the device-authorization response
\* advertises, so the first poll is due advertised interval + margin after the
\* loop starts; every sleep lasts the current interval plus the margin and is
\* followed by one poll.
C22_StartsAtAdvertised ==
  /\ [](login.pc = "sleep" /\ login.polls = <<>> =>
          /\ login.interval = login.advertised * 1000
          /\ login.wake = login.startTime + login.advertised * 1000 + POLLING_MARGIN_MS)
  /\ [][login.pc # "sleep" /\ login'.pc = "sleep" =>
          login'.wake = now + login'.interval + POLLING_MARGIN_MS]_vars
  /\ [][login.pc = "sleep" /\ login'.pc # "sleep" =>
          login'.pc = "poll" /\ Len(login'.polls) = Len(login.polls) + 1]_vars

LastOutcome(l) == l.outcomes[Len(l.outcomes)]

\* C23: the interval changes only on SlowDownError, by 5000 ms up to 15000 ms;
\* authorization_pending leaves it as it is; it never decreases and never
\* exceeds 15000 ms.
C23_IntervalMonotoneCapped ==
  /\ [](login.interval <= 15000)
  /\ [][login.pc # "idle" => login'.interval >= login.interval]_vars
  /\ [][login.pc # "idle" /\ login'.interval # login.interval =>
          /\ login.pc = "poll"
          /\ LastOutcome(login').kind = "slow_down"]_vars
  /\ [][login.pc = "poll" /\ login'.pc # "poll" =>
          login'.interval =
            IF LastOutcome(login').kind = "slow_down"
            THEN (IF login.interval + 5000 > 15000 THEN 15000
                  ELSE login.interval + 5000)
            ELSE login.interval]_vars

C23_Witness ==
  /\ Len(login.outcomes) = 4
  /\ login.outcomes[1].kind = "slow_down"
  /\ login.outcomes[2].kind = "slow_down"
  /\ login.outcomes[3].kind = "pending"
  /\ login.outcomes[4].kind = "slow_down"
  /\ login.interval = 15000

\* C24: a poll that fails with anything other than slow_down or
\* authorization_pending ends the callback as failed: no poll follows and the
\* credential file is not written.
C24_OtherErrorFails ==
  /\ [](\A k \in DOMAIN login.outcomes :
          login.outcomes[k].kind = "error" =>
            /\ login.pc = "done"
            /\ login.result = Failed
            /\ Len(login.outcomes) = k /\ Len(login.polls) = k)
  /\ [][(login.pc = "poll" /\ login'.pc # "poll"
         /\ LastOutcome(login').kind = "error") => file' = file]_vars
  /\ [][login.pc = "done" => file' = file /\ login' = login]_vars

C24_Witness ==
  /\ Len(login.outcomes) = 3
  /\ login.outcomes[1].kind = "pending"
  /\ login.outcomes[2].kind = "slow_down"
  /\ login.outcomes[3].kind = "error"
  /\ login.result = Failed
  /\ file = FileMissing

----------------------------------------------------------------------------
(* The polling loop runs to its end: SpecLoginLive *)

\* expires_in values whose deadline the loop reaches within MaxPolls polls
LiveExpiries == {0, 20, 30}

\* the clock reaches the end of the current sleep
SleepEnds == login.pc = "sleep" /\ login.wake > now /\ Tick(login.wake - now)

PollStarts == Len(login.polls) < MaxPolls /\ PollIssued

PollAnswers == \E o \in PollOutcomes : PollSettles(o)

NextLoginLive ==
  \/ \E e \in LiveExpiries, i \in LoginIntervals : CallbackStart(e, i)
  \/ PollStarts
  \/ PollAnswers
  \/ now < TokenEpoch + MaxLoginTicks * LoginStep /\ Tick(LoginStep)
  \/ SleepEnds

\* timers fire, and every poll request returns
SpecLoginLive ==
  /\ InitLogin
  /\ [][NextLoginLive]_vars
  /\ WF_vars(SleepEnds)
  /\ WF_vars(PollStarts)
  /\ WF_vars(PollAnswers)

OnlyWaiting(l) ==
  \A k \in DOMAIN l.outcomes : l.outcomes[k].kind \in {"null", "pending", "slow_down"}

\* C25: whatever the polls answer, the loop ends; no sleep starts at or after
\* the deadline, so the last one ends less than interval + margin after it; and
\* when every poll answered authorization_pending or slow_down the callback
\* returns failed.
C25_LoopTerminates ==
  /\ (login.pc \in {"sleep", "poll"}) ~> (login.pc = "done")
  /\ [](login.pc = "sleep" =>
          login.wake < Deadline + login.interval + POLLING_MARGIN_MS)
  /\ []((login.pc = "done" /\ OnlyWaiting(login)) => login.result = Failed)

C25_Witness ==
  /\ login.pc = "done"
  /\ login.result = Failed
  /\ Len(login.outcomes) = 3
  /\ OnlyWaiting(login)
  /\ login.outcomes[3].kind = "pending"
  /\ login.polls[3] > Deadline
  /\ login.polls[3] < Deadline + login.interval + POLLING_MARGIN_MS

----------------------------------------------------------------------------
(* saveCredentials and loadCredentials on every credential: SpecStore *)

MaxSaves == 2
MaxLoads == 2

StoreCreds ==
  {Cred(at, tt, rt, ru, ed, sc) :
     at \in {"A1", "A2"}, tt \in {NONE, "", "MAC"}, rt \in {NONE, "", "R1"},
     ru \in {NONE, "portal.qwen.ai"}, ed \in {UndefNum, 0, MaxExpiry},
     sc \in {NONE, "openid"}}

\* files found before the first save: none, an unparsable one, records with
\* neither token, and a record with a refresh token only
StoreFiles ==
  {FileMissing, FileCorrupt}
    \cup {FileJson(at, "Bearer", rt, NONE, ed, NONE) :
            at \in {NONE, ""}, rt \in {NONE, "", "R1"}, ed \in {UndefNum, MaxExpiry}}

InitStore ==
  /\ IdleCalls
  /\ now = 0
  /\ auth = NullAuth
  /\ file \in StoreFiles
  /\ mRuntime = NullCred
  /\ mFile = NullCred
  /\ mResult = NullCred

NextStore ==
  \/ \E c \in StoreCreds : store.saves < MaxSaves /\ SaveCall(c)
  \/ store.loads < MaxLoads /\ LoadCall

SpecStore == InitStore /\ [][NextStore]_vars

\* the record has neither token
NeitherToken(f) ==
  f.kind = "json" /\ ~Truthy(f.access_token) /\ ~Truthy(f.refresh_token)

\* C26: a load after a save returns the credential of the latest save, field by
\* field, with tokenType "Bearer" when the saved one was empty; a load of a
\* missing, unparsable or token-less file returns null.
C26_RoundTrip ==
  store.loads > 0 =>
    /\ store.saves > 0 =>
         /\ ~store.loaded.nil
         /\ store.loaded.accessToken = store.last.accessToken
         /\ store.loaded.refreshToken = store.last.refreshToken
         /\ store.loaded.resourceUrl = store.last.resourceUrl
         /\ store.loaded.expiryDate = store.last.expiryDate
         /\ store.loaded.scope = store.last.scope
         /\ store.loaded.tokenType =
              (IF store.last.tokenType \in {NONE, ""} THEN "Bearer"
               ELSE store.last.tokenType)
    /\ (store.from.kind \in {"missing", "corrupt"} \/ NeitherToken(store.from))
         => store.loaded = NullCred

\* two saves of credentials that differ in every field but the token type, then
\* a load
C26_Witness ==
  /\ store.saves = 2
  /\ store.loads > 0
  /\ store.prev = Cred("A1", "MAC", "R1", "portal.qwen.ai", MaxExpiry, "openid")
  /\ store.last = Cred("A2", "", NONE, NONE, 0, NONE)
  /\ store.loaded = Cred("A2", "Bearer", NONE, NONE, 0, NONE)

----------------------------------------------------------------------------
(* Two resolutions in flight together: SpecOverlap *)

MaxOverlapTicks == 3

OverlapStep == REFRESH_BEFORE_EXPIRY_MS \div 3

\* the host's token has expired, or is inside the refresh lead time
OverlapAuths ==
  {OAuth("T1", "R1", e) : e \in {TokenEpoch - OverlapStep, TokenEpoch + OverlapStep}}

RefreshedTokens == {"T3"}

\* the token endpoint rejects the refresh token or answers with a new pair
OverlapRefreshOutcomes ==
  {[kind |-> "rejected"]}
  \cup {[kind |-> "ok", cred |-> Cred(at, "Bearer", "R3", NONE, UndefNum, NONE)] :
          at \in RefreshedTokens}

InitOverlap ==
  /\ IdleCalls
  /\ now = TokenEpoch
  /\ auth \in OverlapAuths
  /\ file = FileMissing
  /\ mRuntime = NullCred
  /\ mFile = NullCred
  /\ mResult = NullCred

NextOverlap ==
  \/ \E p \in Calls : CallGvat(p)
  \/ \E p \in Calls : GetAuthReturns(p, 0)
  \/ \E p \in Calls, o \in OverlapRefreshOutcomes : RefreshReturns(p, o, 0)
  \/ now < TokenEpoch + MaxOverlapTicks * OverlapStep /\ Tick(OverlapStep)

SpecOverlap == InitOverlap /\ [][NextOverlap]_vars

\* C27: a call that is still between its refresh attempts when another call's
\* refresh has filled the cache leaves the refreshed token in the cache and
\* does not return "no token".
C27_RefreshNotUndone ==
  [][\A q \in Calls :
       (/\ pc[q] = "refresh"
        /\ cachedToken \in RefreshedTokens
        /\ gv'[q] # gv[q])
         => /\ cachedToken' \in RefreshedTokens
            /\ gv'[q].done => Truthy(gv'[q].ret)]_vars

----------------------------------------------------------------------------
(* The cache after a rejected token, under SpecFetch *)

\* C28: when a fetch has ended on a 401/403 whose re-resolution gave no
\* different token, the cache does not serve the rejected token: the fast path
\* of a resolution at the current clock would not return it.
C28_RejectedTokenNotCached ==
  \A c \in Calls :
    (/\ pc[c] = "done"
     /\ fc[c].phase = "reauth"
     /\ AuthFailure(fc[c].first)
     /\ ~(Truthy(fc[c].retriedToken) /\ fc[c].retriedToken # fc[c].accessToken))
      => ~(cachedToken = fc[c].accessToken /\ FastPath(Cache, now))

----------------------------------------------------------------------------
(* Every pair of sources, one resolution after another: SpecSources *)

MaxSourceTicks == 2

\* no expiry, one that has passed, one beyond the refresh lead time
SourceExpiries ==
  {UndefNum, TokenEpoch - TokenStep, TokenEpoch + 4 * TOKEN_CACHE_DURATION}

SourceAuths ==
  {NullAuth}
  \cup {OAuth(a, r, e) : a \in {NONE, "T1"}, r \in {NONE, "R1"}, e \in SourceExpiries}

SourceFiles ==
  {FileMissing}
  \cup {FileJson(a, "Bearer", r, NONE, e, NONE) :
          a \in {NONE, "T2"}, r \in {NONE, "R2"}, e \in SourceExpiries}

InitSources ==
  /\ IdleCalls
  /\ now = TokenEpoch
  /\ auth \in SourceAuths
  /\ file \in SourceFiles
  /\ mRuntime = NullCred
  /\ mFile = NullCred
  /\ mResult = NullCred

NextSources ==
  \/ CallGvat(1)
  \/ GetAuthReturns(1, 0)
  \/ \E o \in OverlapRefreshOutcomes : RefreshReturns(1, o, 0)
  \/ now < TokenEpoch + MaxSourceTicks * TokenStep /\ Tick(TokenStep)

SpecSources == InitSources /\ [][NextSources]_vars

\* the source records the token tok and does not record it as expired at t
VouchedBy(src, tok, t) ==
  /\ ~src.nil
  /\ src.accessToken = tok
  /\ src.expiryDate = UndefNum \/ src.expiryDate >= t

\* C29: a token returned by a resolution is a refresh result of that
\* resolution, or the cached token with the clock before its cached expiry, or
\* the access token of a source whose own expiry is absent or not earlier than
\* the clock reading.
C29_ReturnedTokenNotExpired ==
  LET cur == gv[1]
  IN (cur.done /\ Truthy(cur.ret)) =>
       \/ cur.exchOk /\ cur.ret \in RefreshedTokens
       \/ cur.fast /\ cur.ret = cachedToken /\ cur.nowL < cachedTokenExpiry
       \/ VouchedBy(runtimeAuthToCredentials(auth), cur.ret, cur.nowL)
       \/ VouchedBy(loadCredentials(file), cur.ret, cur.nowL)

====
